---- MODULE Spec2Model ----
(***************************************************************************)
(* Model of the mcp-github client: the GitHubAPI class (request engine,    *)
(* pagination engine, facade methods) and the tool handlers registered on  *)
(* the MCP server (update_issue, update_pull_request, add_issue_comment,   *)
(* get_code_changes_by_date, ...).                                         *)
(*                                                                         *)
(* Encoding of JavaScript values                                           *)
(*   string (response text)  [t |-> "string", of |-> d]   where d is the   *)
(*                           JSON document the text spells, or a           *)
(*                           [t |-> "nonjson"] record when it spells none  *)
(*   array                   [t |-> "array", elems |-> <<...>>]            *)
(*   object                  [t |-> "object", ...fields...]                *)
(*   short caller strings    TLA+ strings; UNDEFINED is the absent value   *)
(*   comment texts, URLs     sequences of text fragments, "" being <<>>    *)
(***************************************************************************)
EXTENDS Integers, Sequences, FiniteSets, TLC

(* ------------------------------ bounds --------------------------------- *)
MaxPages == 2        \* longest chain of pages the remote serves
MaxPageLen == 2      \* most items in one page
MaxTextLen == 3      \* longest caller-supplied comment text, in fragments
MaxItems == 2        \* most items in a whole chain of pages
MaxFiles == 2        \* most file entries in one commit detail
MaxEntries == 2      \* most entries in one link header handed to parseLinkHeader

(* --------------------------- program constants ------------------------- *)
GITHUB_API_BASE == "https://api.github.com"
AI_COMMENT_IDENTIFIER == <<"[AI] Generated using MCP", "\n", "\n">>
BATCH_SIZE == 10

NULL == "null"

(* ------------------------------ helpers -------------------------------- *)
SeqsUpTo(S, n) == UNION {[1..k -> S] : k \in 0..n}

Min(a, b) == IF a < b THEN a ELSE b

RECURSIVE Flatten(_)
Flatten(ss) == IF ss = <<>> THEN <<>> ELSE Head(ss) \o Flatten(Tail(ss))

(* A JavaScript object with optional properties is a function whose       *)
(* domain holds the properties that are present; a string is a sequence   *)
(* of fragments, "" being <<>>.  Truthy(o, k) is the truthiness of o.k    *)
(* for a string-valued property: undefined and "" are falsy.              *)
EmptyObject == [k \in {} |-> <<>>]
Has(o, k) == k \in DOMAIN o
Truthy(o, k) == Has(o, k) /\ o[k] # <<>>

(* ------------------------- values on the wire -------------------------- *)
Shas == {"a1", "b2"}

(* File entries of a commit detail (types.ts CommitFile); as GitHub       *)
(* computes them, changes = additions + deletions.                        *)
FileEntry(f, st, a, d) ==
  [filename |-> f, status |-> st, additions |-> a, deletions |-> d, changes |-> a + d]
FileEntries ==
  <<FileEntry("a.txt", "added", 1, 0), FileEntry("a.txt", "modified", 2, 1),
    FileEntry("b.txt", "modified", 2, 1)>>
Commit(sha) == [t |-> "object", sha |-> sha]
CommitDetail(sha, files) == [t |-> "object", sha |-> sha, files |-> files]
MessageObject == [t |-> "object", message |-> "Not Found"]
IssueObject == [t |-> "object", number |-> 1]
PullRequestObject ==
  [t |-> "object", number |-> 2, user |-> [login |-> "u"],
   head |-> [ref |-> "feature"], base |-> [ref |-> "main"]]
CommentObject == [t |-> "object", id |-> 7, user |-> [login |-> "u"]]
JsonArray(xs) == [t |-> "array", elems |-> xs]
NonJson == [t |-> "nonjson", chars |-> "<html>"]

(* A response text that spells the document d, laid out as the remote     *)
(* chose; JSON.stringify lays a document out in its own compact way.      *)
Text(d) == [t |-> "string", of |-> d, compact |-> FALSE]
NoBody == [t |-> "undefined"]

NextUrl == <<GITHUB_API_BASE, "/repositories/1/commits", "?page=2">>
ForeignUrl == <<"https://evil.example", "/repositories/1/commits", "?page=2">>

(* Link header values.  A header is the string of its characters, kept as *)
(* a sequence of tokens: the delimiters "<", ">", ";", ",", " ", the      *)
(* opening rel=" and the closing quote are tokens of their own, and so is *)
(* every fragment of a URL and every relation name.  An entry is written  *)
(* <url>; rel="name"; an entry may lack its URL part or its rel part.     *)
(* Entries are joined by ", " as GitHub joins them.  NoLink is the null   *)
(* that headers.get('link') gives for a response without the header.      *)
LinkEntry(url, rel) == [form |-> "full", url |-> url, rel |-> rel]
EntryText(e) ==
  (IF e.form = "nourl" THEN <<>> ELSE <<"<">> \o e.url \o <<">">>)
  \o
  (IF e.form = "norel" THEN <<>> ELSE <<";", " ", "rel=\"", e.rel, "\"">>)

RECURSIVE HeaderText(_)
HeaderText(entries) ==
  IF entries = <<>> THEN <<>>
  ELSE IF Len(entries) = 1 THEN EntryText(entries[1])
  ELSE EntryText(Head(entries)) \o <<",", " ">> \o HeaderText(Tail(entries))

Link(entries) == [t |-> "string", chars |-> HeaderText(entries)]
NoLink == [t |-> "null"]

HeadersWithNext ==
  LET EntriesWithNext ==
        { <<LinkEntry(NextUrl, "next"), LinkEntry(NextUrl, "last")>>,
          <<LinkEntry(ForeignUrl, "next")>> }
  IN  {Link(es) : es \in EntriesWithNext}
LinkHeaders ==
  LET EntriesWithoutNext ==
        { <<LinkEntry(NextUrl, "last")>>,
          <<LinkEntry(<<>>, "next")>> }
  IN
               HeadersWithNext \cup {Link(es) : es \in EntriesWithoutNext} \cup {NoLink}

JsonContentType == "application/json; charset=utf-8"
Response(status, ct, text, link) ==
  [status |-> status, ct |-> ct, text |-> text, link |-> link]

(* The transport fails: fetch rejects instead of resolving to a response.  *)
NoAnswer == [failed |-> TRUE]
Rejected(res) == "failed" \in DOMAIN res

(* What the remote may answer to a single-resource request.               *)
Responses ==
  LET Statuses == {200, 404}
      ContentTypes == {JsonContentType, "text/plain"}
  IN  {Response(s, c, Text(d), NoLink) :
         s \in Statuses, c \in ContentTypes \cup {NULL},
         d \in {IssueObject, MessageObject, NonJson}}
  \cup {NoAnswer}

(* What the remote may answer to a request of one of the read tools: the  *)
(* above, a full issue or pull request, or a list of comments.            *)
ViewResponses ==
  Responses \cup
  {Response(200, JsonContentType, Text(d), NoLink) :
     d \in {PullRequestObject, JsonArray(<<>>), JsonArray(<<CommentObject>>),
            JsonArray(<<MessageObject>>)}}

(* A page that does not fit one batch: BATCH_SIZE + 1 distinct commits.    *)
LongPage == [k \in 1..BATCH_SIZE + 1 |-> Commit("c" \o ToString(k))]

(* What the remote may answer to the request for page n of a collection   *)
(* of which `have` items were already served: the chain of pages is       *)
(* finite, at most MaxPages pages of MaxItems items together.             *)
PageResponses(n, have) ==
  {Response(200, JsonContentType, Text(JsonArray(xs)), l) :
     xs \in {ys \in SeqsUpTo({Commit(x) : x \in Shas}, MaxPageLen) :
              Len(ys) = 0 \/ have + Len(ys) <= MaxItems},
     l \in IF n < MaxPages THEN LinkHeaders ELSE LinkHeaders \ HeadersWithNext}
  \cup
  {Response(200, JsonContentType, Text(MessageObject), NoLink),
   Response(200, JsonContentType, Text(NonJson), NoLink),
   Response(200, "text/plain", Text(JsonArray(<<>>)), NoLink),
   Response(404, JsonContentType, Text(MessageObject), NoLink),
   Response(404, JsonContentType, Text(NonJson), NoLink),
   NoAnswer}

(* A remote whose collection is one page that fills one batch, or does    *)
(* not fit one.                                                           *)
LongPageResponses(n, have) ==
  LET FullPage == SubSeq(LongPage, 1, BATCH_SIZE)
  IN  {Response(200, JsonContentType, Text(JsonArray(p)), NoLink) : p \in {FullPage, LongPage}}

(* What the remote may answer to the request for the detail of commit     *)
(* sha, one of n commits: any file list for a short commit list, one file *)
(* list or a failure for a long one.                                      *)
DetailResponses(sha, n) ==
  LET (* The file lists of the commit details: the runs of at most       *)
      (* MaxFiles consecutive entries.                                    *)
      FileLists ==
        {SubSeq(FileEntries, r[1], r[2]) :
           r \in {q \in (1..Len(FileEntries)) \X (0..Len(FileEntries)) : q[2] - q[1] < MaxFiles}}
  IN
  IF n <= MaxItems
  THEN {Response(200, JsonContentType, Text(CommitDetail(sha, fs)), NoLink) : fs \in FileLists}
       \cup
       {Response(200, JsonContentType, Text(Commit(sha)), NoLink),
        Response(404, JsonContentType, Text(MessageObject), NoLink),
        Response(200, JsonContentType, Text(NonJson), NoLink),
        NoAnswer}
  ELSE {Response(200, JsonContentType,
                 Text(CommitDetail(sha, <<FileEntry("a.txt", "modified", 2, 1)>>)),
                 NoLink),
        Response(404, JsonContentType, Text(MessageObject), NoLink)}

(* ------------------------------ state ---------------------------------- *)
VARIABLES
  token,          \* GitHubAPI.token
  authMethod,     \* GitHubAPI.authMethod
  proc,           \* main(): "starting", "serving" (transport connected), "exited"
  exitCode,       \* the code handed to process.exit, NoExit while the process runs
  op,             \* the client method or tool handler in progress, or "idle"
  args,           \* its arguments
  pc,             \* its position: "idle", "page", "fetch", "delay", "done"
  net,            \* the requests it dispatched, in dispatch order
  out,            \* what the client call returned or threw
  lastResponse,   \* the response that call was settled with
  result,         \* the text payload the tool handler returned
  results,        \* requestPaginated: accumulator
  currentUrl,     \* requestPaginated: next target
  pageCount,      \* requestPaginated: pages counted
  pages,          \* the per-page arrays received, in fetch order
  commits,        \* get_code_changes_by_date: the commit list
  commitDetails,  \* get_code_changes_by_date: the details joined so far
  i,              \* get_code_changes_by_date: start of the current batch
  batchDetails,   \* the slots of the current batch's Promise.all
  delays,         \* pacing delays started by the handler
  failed          \* positions in commits whose detail fetch failed

NoExit == -1
NoOutcome == [t |-> "none"]
Returned(v) == [t |-> "returned", value |-> v]
Threw(e) == [t |-> "threw", error |-> e]
NoResponse == [t |-> "none"]
NoResult == [t |-> "none"]

JSONstringify(v) == [t |-> "string", of |-> v, compact |-> TRUE]

(* ----------------------------- helpers.ts ------------------------------ *)
(* The promise of res.json() / res.text() is returned from inside the try  *)
(* block without being awaited, so its rejection settles the promise of    *)
(* parseResponseBody itself and the catch block never runs.                *)
parseResponseBody(res) ==
  LET SyntaxError == [name |-> "SyntaxError", tpl |-> "Unexpected token in JSON"]
      (* res.text()                                                        *)
      ResText == Returned(res.text)
      (* res.json(): the parsed document, or a rejection when the text     *)
      (* spells no JSON document.                                          *)
      ResJson == IF res.text.of.t = "nonjson" THEN Threw(SyntaxError)
                 ELSE Returned(res.text.of)
      ct == IF res.ct = NULL THEN "" ELSE res.ct
  IN  IF ct = JsonContentType THEN ResJson ELSE ResText

createGitHubError(status, body) ==
  LET msg == IF body.t = "string" THEN body ELSE JSONstringify(body)
  IN  [name |-> "Error",
       tpl |-> "GitHub API error! Status: ${status}. Message: ${msg}",
       status |-> status, msg |-> msg]

(* String.prototype.split(sep) on a token sequence.                        *)
RECURSIVE Split(_, _)
Split(s, sep) ==
  IF \A k \in 1..Len(s) : s[k] # sep THEN <<s>>
  ELSE LET at == CHOOSE k \in 1..Len(s) : s[k] = sep /\ \A j \in 1..(k - 1) : s[j] # sep
       IN  <<SubSeq(s, 1, at - 1)>> \o Split(SubSeq(s, at + 1, Len(s)), sep)

(* String.prototype.trim()                                                 *)
RECURSIVE Trim(_)
Trim(s) ==
  IF s = <<>> THEN s
  ELSE IF Head(s) = " " THEN Trim(Tail(s))
  ELSE IF s[Len(s)] = " " THEN Trim(SubSeq(s, 1, Len(s) - 1))
  ELSE s

(* The spans of relPart that rel="(.+)" can match: from an opening rel="   *)
(* over at least one character to a closing quote.                         *)
RelSpans(relPart) ==
  {sp \in (1..Len(relPart)) \X (1..Len(relPart)) :
     relPart[sp[1]] = "rel=\"" /\ relPart[sp[2]] = "\"" /\ sp[2] >= sp[1] + 2}

(* relPart.match(/rel="(.+)"/)[1]: the leftmost match, .+ being greedy;    *)
(* <<>> stands for no match.                                               *)
RelMatch(relPart) ==
  IF RelSpans(relPart) = {} THEN <<>>
  ELSE LET sp == CHOOSE x \in RelSpans(relPart) :
                   \A y \in RelSpans(relPart) : x[1] <= y[1] /\ (x[1] = y[1] => x[2] >= y[2])
       IN  SubSeq(relPart, sp[1] + 1, sp[2] - 1)

(* The string a token sequence spells: the property name links[...] gets.  *)
RECURSIVE Concat(_)
Concat(s) == IF s = <<>> THEN "" ELSE Head(s) \o Concat(Tail(s))

(* The body of the for loop over parts, applied to the parts in order.     *)
RECURSIVE LinksOf(_)
LinksOf(parts) ==
  LET (* slice(1, -1): the string less its first and last character.     *)
      SliceEnds(s) == SubSeq(s, 2, Len(s) - 1)
  IN
  IF parts = <<>> THEN EmptyObject
  ELSE LET n == Len(parts)
           before == LinksOf(SubSeq(parts, 1, n - 1))
           pieces == Split(parts[n], ";")
           urlPart == pieces[1]
           relPart == IF Len(pieces) >= 2 THEN pieces[2] ELSE <<>>
           url == SliceEnds(Trim(urlPart))
           rel == Concat(RelMatch(relPart))
       IN  IF urlPart = <<>> \/ relPart = <<>> THEN before
           ELSE IF RelMatch(relPart) = <<>> THEN before
           ELSE [k \in DOMAIN before \cup {rel} |-> IF k = rel THEN url ELSE before[k]]

parseLinkHeader(linkHeader) ==
  IF linkHeader.t = "null" THEN EmptyObject
  ELSE IF linkHeader.chars = <<>> THEN EmptyObject
  ELSE LinksOf(Split(linkHeader.chars, ","))

(* ------------------------- GitHubAPI: request -------------------------- *)
DefaultHeaders ==
  LET USER_AGENT == "mcp-github/1.0.0"
  IN  ("Accept" :> "application/vnd.github.v3+json") @@
      ("Content-Type" :> "application/json") @@
      ("User-Agent" :> USER_AGENT) @@
      ("X-GitHub-Api-Version" :> "2022-11-28")

(* A merge in which the defaults win.                                      *)
Spread_DefaultsWin(defaults, overrides) ==
  [k \in DOMAIN defaults \cup DOMAIN overrides |->
     IF k \in DOMAIN defaults THEN defaults[k] ELSE overrides[k]]

(* {...defaults, ...overrides}: the overrides win.                         *)
Spread(defaults, overrides) ==
  [k \in DOMAIN defaults \cup DOMAIN overrides |->
     IF k \in DOMAIN overrides THEN overrides[k] ELSE defaults[k]]

(* URLs are sequences of fragments; an absolute URL starts with its       *)
(* origin, which starts with "http".                                      *)
FullUrl(url) ==
  LET Origins == {GITHUB_API_BASE, "https://evil.example"}
      StartsWithHttp == url # <<>> /\ url[1] \in Origins
  IN  IF StartsWithHttp THEN url ELSE <<GITHUB_API_BASE>> \o url

OptHeaders(options) == IF Has(options, "headers") THEN options.headers ELSE EmptyObject
(* if (this.token): null and "" are falsy.                                 *)
HasToken(tok) == tok # NULL /\ tok # ""

(* The headers object once the Authorization header has been set.          *)
WithBearer(headers, tok) ==
  LET Bearer == "Bearer " \o tok
  IN  ("Authorization" :> Bearer) @@ headers

(* The call handed to fetch.                                               *)
FetchCall(url, options, headers) ==
  LET OptMethod == IF Has(options, "method") THEN options.method ELSE "GET"
      OptBody == IF Has(options, "body") THEN JSONstringify(options.body) ELSE NoBody
  IN  [url |-> FullUrl(url), method |-> OptMethod, headers |-> headers, body |-> OptBody]

AuthRequired == [name |-> "Error", tpl |-> "GitHub authentication required"]

(* A test that takes every response for a success.                         *)
IsOk_Any(res) == TRUE

(* response.ok                                                             *)
IsOk(res) == res.status >= 200 /\ res.status <= 299

(* The error fetch rejects with when the transport fails.                  *)
FetchFailed == [name |-> "TypeError", tpl |-> "fetch failed"]

(* What the engine does once fetch has settled.                            *)
Settle(res) ==
  LET body == parseResponseBody(res)
  IN  IF Rejected(res) THEN Threw(FetchFailed)
      ELSE IF body.t = "threw" THEN body
      ELSE IF ~IsOk(res)
           THEN Threw(createGitHubError(res.status, body.value))
           ELSE Returned(body.value)

(* Prepare without the credential check.                                   *)
Prepare_Unchecked(tok, url, options) ==
  LET headers == Spread(DefaultHeaders, OptHeaders(options))
  IN  [sent |-> <<FetchCall(url, options, IF HasToken(tok) THEN WithBearer(headers, tok) ELSE headers)>>,
       outcome |-> NoOutcome]

(* request(url, options) up to its await of fetch: the call dispatched,    *)
(* or the error thrown when no credential is held.                         *)
Prepare(tok, url, options) ==
  LET headers == Spread(DefaultHeaders, OptHeaders(options))
  IN  IF HasToken(tok)
      THEN [sent |-> <<FetchCall(url, options, WithBearer(headers, tok))>>, outcome |-> NoOutcome]
      ELSE [sent |-> <<>>, outcome |-> Threw(AuthRequired)]

(* request(url, options) with the credential tok against a remote that     *)
(* answers res: the calls dispatched, the response processed, the outcome. *)
request(tok, url, options, res) ==
  LET p == Prepare(tok, url, options)
  IN  IF p.outcome.t = "threw"
      THEN [sent |-> p.sent, got |-> NoResponse, outcome |-> p.outcome]
      ELSE [sent |-> p.sent, got |-> IF Rejected(res) THEN NoResponse ELSE res,
            outcome |-> Settle(res)]

(* --------------------- GitHubAPI: requestPaginated --------------------- *)
ShapeError == [name |-> "Error", tpl |-> "Expected array response for paginated request"]

(* The first target: the URL with the per_page parameter appended.         *)
FirstPageUrl(url, options) ==
  LET QueryFragments == {"?since=2025-01-01", "?page=2"}
      Includes(fragments) == \E j \in 1..Len(url) : url[j] \in fragments
      per_page == IF Has(options, "per_page") THEN options.per_page ELSE 100
      separator == IF Includes(QueryFragments) THEN "&" ELSE "?"
  IN  url \o <<separator \o "per_page=" \o ToString(per_page)>>

(* PushAll that puts the new page in front.                                *)
PushAll_Unshift(acc, body) == body.elems \o acc

PushAll(acc, body) == acc \o body.elems

(* A cap test that lets one page more through.                             *)
CapReached_Late(options, count) ==
  Has(options, "max_pages") /\ options.max_pages # 0 /\ count > options.max_pages + 1

(* max_pages && pageCount > max_pages                                      *)
CapReached(options, count) ==
  Has(options, "max_pages") /\ options.max_pages # 0 /\ count > options.max_pages

(* One iteration of the while loop, from pageCount++ to the end of the     *)
(* body, for the locals st and a remote that answers res.                  *)
PageIteration(tok, st, options, res) ==
  LET count == st.pageCount + 1
      PageHeaders ==
        LET headers == Spread(DefaultHeaders, OptHeaders(options))
        IN  IF HasToken(tok) THEN WithBearer(headers, tok) ELSE headers
      (* links.next || ''                                                  *)
      NextTarget(links) == IF Truthy(links, "next") THEN links.next ELSE <<>>
      call == FetchCall(st.currentUrl, options, PageHeaders)
      body == parseResponseBody(res)
      quit(outcome) == [pageCount |-> count, results |-> st.results, currentUrl |-> st.currentUrl,
                        sent |-> <<call>>, got |-> IF Rejected(res) THEN NoResponse ELSE res,
                        fetched |-> <<>>, outcome |-> outcome]
  IN  IF CapReached(options, count)
      THEN [pageCount |-> count, results |-> st.results, currentUrl |-> st.currentUrl,
            sent |-> <<>>, got |-> NoResponse, fetched |-> <<>>,
            outcome |-> Returned(JsonArray(st.results))]
      ELSE IF Rejected(res) THEN quit(Threw(FetchFailed))
      ELSE IF body.t = "threw" THEN quit(body)
      ELSE IF ~IsOk(res) THEN quit(Threw(createGitHubError(res.status, body.value)))
      ELSE IF body.value.t # "array" THEN quit(Threw(ShapeError))
      ELSE LET acc == PushAll(st.results, body.value)
               next == NextTarget(parseLinkHeader(res.link))
           IN  [pageCount |-> count, results |-> acc, currentUrl |-> next,
                sent |-> <<call>>, got |-> res, fetched |-> <<body.value.elems>>,
                outcome |-> IF next # <<>> THEN NoOutcome ELSE Returned(JsonArray(acc))]

(* ------------------------- GitHubAPI: facade --------------------------- *)
Call(url, options) == [url |-> url, options |-> options]

getIssue == Call(<<"/repos/o/r/issues/1">>, EmptyObject)

(* body || '' leaves a string as it is.                                    *)
createIssue(title, body) ==
  Call(<<"/repos/o/r/issues">>,
       [method |-> "POST", body |-> [title |-> title, body |-> body]])

getIssueComments == Call(<<"/repos/o/r/issues/1/comments">>, EmptyObject)

(* draft || false                                                          *)
createPullRequest(title, head, base, body, draft) ==
  Call(<<"/repos/o/r/pulls">>,
       [method |-> "POST",
        body |-> [title |-> title, head |-> head, base |-> base, body |-> body,
                  draft |-> draft]])

getPullRequest == Call(<<"/repos/o/r/pulls/1">>, EmptyObject)

getPullRequestDiff ==
  Call(<<"/repos/o/r/pulls/1">>,
       [headers |-> ("Accept" :> "application/vnd.github.v3.diff")])

getPullRequestComments == Call(<<"/repos/o/r/issues/1/comments">>, EmptyObject)

updateIssue(updates) ==
  Call(<<"/repos/o/r/issues/1">>, [method |-> "PATCH", body |-> updates])

(* addIssueComment that leaves a text that already carries the marker.     *)
addIssueComment_Once(body) ==
  Call(<<"/repos/o/r/issues/1/comments">>,
       [method |-> "POST",
        body |-> [body |-> IF Len(body) >= Len(AI_COMMENT_IDENTIFIER)
                              /\ SubSeq(body, 1, Len(AI_COMMENT_IDENTIFIER)) = AI_COMMENT_IDENTIFIER
                           THEN body ELSE AI_COMMENT_IDENTIFIER \o body]])

addIssueComment(body) ==
  Call(<<"/repos/o/r/issues/1/comments">>,
       [method |-> "POST", body |-> [body |-> AI_COMMENT_IDENTIFIER \o body]])

updatePullRequest(updates) ==
  Call(<<"/repos/o/r/pulls/1">>, [method |-> "PATCH", body |-> updates])

getCommit(ref) == Call(<<"/repos/o/r/commits/", ref>>, EmptyObject)

(* The URL and options getCommitsByDateRange hands to requestPaginated.    *)
getCommitsByDateRange(a) ==
  LET encodeURIComponent(str) ==
        [j \in 1..Len(str) |-> IF str[j] = "@" THEN "%40" ELSE str[j]]
      url0 == <<"/repos/o/r/commits", "?since=2025-01-01">>
      url1 == IF Truthy(a, "until") THEN url0 \o <<"&until=">> \o a.until ELSE url0
      url2 == IF Truthy(a, "author")
              THEN url1 \o <<"&author=">> \o encodeURIComponent(a.author) ELSE url1
  IN  Call(url2, IF Has(a, "paginationOptions") THEN a.paginationOptions ELSE EmptyObject)

(* ------------------------------ inputs --------------------------------- *)
InputTexts ==
  LET Fragments == {"[AI] Generated using MCP", "\n", "x"}
  IN  SeqsUpTo(Fragments, MaxTextLen)

(* Optional string arguments: absent, "" or a non-empty string.            *)
Partial(fields, values) == UNION {[S -> values] : S \in SUBSET fields}
ShortTexts == {<<>>, <<"x">>}
States == {<<"open">>, <<"closed">>}

UpdateIssueInputs ==
  {t @@ st : t \in Partial({"title", "body"}, ShortTexts), st \in Partial({"state"}, States)}
UpdatePullRequestInputs ==
  {t @@ st : t \in Partial({"title", "body", "base"}, ShortTexts), st \in Partial({"state"}, States)}

(* body = "" when omitted; draft stays undefined when omitted.             *)
CreateIssueInputs ==
  {[title |-> <<"x">>] @@ b : b \in Partial({"body"}, ShortTexts)}
CreatePullRequestInputs ==
  {[title |-> <<"x">>, head |-> <<"feature">>, base |-> <<"main">>] @@ b @@ d :
     b \in Partial({"body"}, ShortTexts), d \in Partial({"draft"}, BOOLEAN)}

PaginationInputs == Partial({"per_page"}, {30}) \cup
                    {[max_pages |-> n] : n \in 0..MaxPages - 1}
DateRangeInputs ==
  {p @@ q : p \in Partial({"until"}, {<<"2025-02-01">>}),
            q \in {EmptyObject} \cup {[paginationOptions |-> o] : o \in PaginationInputs}}
  \cup {[author |-> <<"a", "@", "b.c">>]}

(* Link headers handed to parseLinkHeader: null, "", and up to MaxEntries  *)
(* entries, each whole or lacking one of its parts.                       *)
LinkUrls ==
  LET (* A URL whose query holds a comma.                                 *)
      CommaUrl == <<GITHUB_API_BASE, "/repos/o/r/issues", "?labels=a", ",", "b">>
  IN  {NextUrl, ForeignUrl, CommaUrl}
Rels == {"next", "last"}
EntryLists ==
  LET EntryNoUrl(rel) == [form |-> "nourl", rel |-> rel]
      EntryNoRel(url) == [form |-> "norel", url |-> url]
      EntryForms ==
        {LinkEntry(u, r) : u \in LinkUrls, r \in Rels}
        \cup {EntryNoUrl(r) : r \in Rels}
        \cup {EntryNoRel(u) : u \in LinkUrls}
  IN  SeqsUpTo(EntryForms, MaxEntries)
CliAuthResults ==
  {[t |-> "null"],
   [t |-> "object", token |-> "gho_token", authenticated |-> TRUE],
   [t |-> "object", token |-> "", authenticated |-> FALSE],
   [t |-> "object", token |-> "gho_stale", authenticated |-> FALSE]}

(* ----------------------- initialize and main --------------------------- *)
NotAuthenticated ==
  [name |-> "Error",
   tpl |-> "GitHub authentication failed: GitHub CLI is not authenticated. Please run: gh auth login"]

(* initialize that keeps the token of an unauthenticated answer.           *)
initialize_KeepToken(cliAuth) ==
  IF cliAuth.t # "null" /\ cliAuth.authenticated
  THEN [token |-> cliAuth.token, authMethod |-> "github-cli", outcome |-> Returned(NoBody)]
  ELSE [token |-> IF cliAuth.t # "null" /\ cliAuth.token # "" THEN cliAuth.token ELSE token,
        authMethod |-> authMethod, outcome |-> Threw(NotAuthenticated)]

(* initialize() for the answer cliAuth of GitHubCLIAuth.getToken().        *)
initialize(cliAuth) ==
  IF cliAuth.t # "null" /\ cliAuth.authenticated
  THEN [token |-> cliAuth.token, authMethod |-> "github-cli", outcome |-> Returned(NoBody)]
  ELSE [token |-> token, authMethod |-> authMethod, outcome |-> Threw(NotAuthenticated)]

pageVars == <<results, currentUrl, pageCount, pages>>
clientVars == <<token, authMethod, proc, exitCode>>

CanStart == proc # "exited" /\ pc = "idle"

NoPaging ==
  /\ results' = <<>>
  /\ currentUrl' = <<>>
  /\ pageCount' = 0
  /\ pages' = <<>>

reportVars == <<commits, commitDetails, i, batchDetails, delays, failed>>

NoReport ==
  /\ commits' = <<>>
  /\ commitDetails' = <<>>
  /\ i' = 0
  /\ batchDetails' = <<>>
  /\ delays' = 0
  /\ failed' = {}

(* main(): initialize, then connect the transport; exit(1) on failure.     *)
(* lastResponse keeps the answer of the credential provider.               *)
Main ==
  /\ proc = "starting"
  /\ pc = "idle"
  /\ \E cliAuth \in CliAuthResults :
       LET r == initialize(cliAuth)
       IN  /\ token' = r.token
           /\ authMethod' = r.authMethod
           /\ out' = r.outcome
           /\ proc' = IF r.outcome.t = "threw" THEN "exited" ELSE "serving"
           /\ exitCode' = IF r.outcome.t = "threw" THEN 1 ELSE NoExit
           /\ lastResponse' = cliAuth
  /\ op' = "main"
  /\ args' = EmptyObject
  /\ pc' = "done"
  /\ net' = <<>>
  /\ result' = NoResult
  /\ NoPaging
  /\ NoReport

(* The caller has taken the outcome of the finished call; the locals of    *)
(* the call are gone.                                                      *)
Return ==
  /\ pc = "done"
  /\ op' = "idle"
  /\ args' = EmptyObject
  /\ pc' = "idle"
  /\ net' = <<>>
  /\ lastResponse' = NoResponse
  /\ out' = NoOutcome
  /\ result' = NoResult
  /\ NoPaging
  /\ NoReport
  /\ UNCHANGED clientVars

(* ------------------- direct calls of client methods -------------------- *)
(* A caller invokes a single-resource method of the client.                *)
ClientRequest ==
  LET ClientCalls ==
        {[method |-> "getIssue", args |-> EmptyObject, call |-> getIssue]}
        \cup {[method |-> "addIssueComment", args |-> [body |-> b], call |-> addIssueComment(b)]
                : b \in InputTexts}
        \cup {[method |-> "getCommit", args |-> [ref |-> x], call |-> getCommit(x)] : x \in Shas}
  IN
  /\ CanStart
  /\ \E c \in ClientCalls, res \in Responses :
       LET r == request(token, c.call.url, c.call.options, res)
       IN  /\ op' = c.method
           /\ args' = c.args
           /\ net' = r.sent
           /\ lastResponse' = r.got
           /\ out' = r.outcome
  /\ pc' = "done"
  /\ result' = NoResult
  /\ NoPaging
  /\ NoReport
  /\ UNCHANGED clientVars

(* A caller invokes getCommitsByDateRange: requestPaginated starts.        *)
ClientPaginate ==
  /\ CanStart
  /\ \E a \in DateRangeInputs :
       LET c == getCommitsByDateRange(a)
       IN  /\ args' = a
           /\ currentUrl' = FirstPageUrl(c.url, c.options)
  /\ op' = "getCommitsByDateRange"
  /\ pc' = "page"
  /\ net' = <<>>
  /\ lastResponse' = NoResponse
  /\ out' = NoOutcome
  /\ result' = NoResult
  /\ results' = <<>>
  /\ pageCount' = 0
  /\ pages' = <<>>
  /\ NoReport
  /\ UNCHANGED clientVars

(* One iteration of the loop of requestPaginated called directly.          *)
ClientPage ==
  /\ op = "getCommitsByDateRange"
  /\ pc = "page"
  /\ \E res \in PageResponses(pageCount + 1, Len(results)) :
       LET st == [results |-> results, currentUrl |-> currentUrl, pageCount |-> pageCount]
           r == PageIteration(token, st, getCommitsByDateRange(args).options, res)
       IN  /\ results' = r.results
           /\ currentUrl' = r.currentUrl
           /\ pageCount' = r.pageCount
           /\ pages' = pages \o r.fetched
           /\ net' = net \o r.sent
           /\ lastResponse' = r.got
           /\ out' = r.outcome
           /\ pc' = IF r.outcome.t = "none" THEN "page" ELSE "done"
  /\ UNCHANGED <<clientVars, op, args, result, reportVars>>

(* A caller (requestPaginated is the one in the program) invokes           *)
(* parseLinkHeader on a header.                                            *)
CallParseLinkHeader ==
  LET LinkHeaderInputs == {NoLink} \cup {Link(es) : es \in EntryLists}
  IN
  /\ CanStart
  /\ \E h \in LinkHeaderInputs :
       /\ args' = [linkHeader |-> h]
       /\ out' = Returned(parseLinkHeader(h))
  /\ op' = "parseLinkHeader"
  /\ pc' = "done"
  /\ net' = <<>>
  /\ lastResponse' = NoResponse
  /\ result' = NoResult
  /\ NoPaging
  /\ NoReport
  /\ UNCHANGED clientVars

(* getAuthStatus(): { authenticated: !!this.token, method: this.authMethod *)
(* || undefined }; the credential state is left as it is.                  *)
getAuthStatus ==
  [token |-> token, authMethod |-> authMethod,
   outcome |-> Returned([t |-> "object", authenticated |-> HasToken(token)] @@
                        (IF authMethod # NULL THEN [method |-> authMethod] ELSE EmptyObject))]

(* testConnection that drops the credential when the request fails.        *)
testConnection_Forget(res) ==
  LET r == request(token, <<"/user">>, EmptyObject, res)
  IN  [token |-> IF r.outcome.t = "threw" THEN NULL ELSE token,
       authMethod |-> IF r.outcome.t = "threw" THEN NULL ELSE authMethod,
       sent |-> r.sent, got |-> r.got,
       outcome |-> Returned([t |-> "boolean", b |-> r.outcome.t # "threw"])]

(* testConnection() against a remote that answers res: true when           *)
(* request('/user') returns, false when it throws; the credential state    *)
(* is left as it is.                                                       *)
testConnection(res) ==
  LET r == request(token, <<"/user">>, EmptyObject, res)
  IN  [token |-> token, authMethod |-> authMethod,
       sent |-> r.sent, got |-> r.got,
       outcome |-> Returned([t |-> "boolean", b |-> r.outcome.t # "threw"])]

(* A caller invokes getAuthStatus.                                         *)
CallGetAuthStatus ==
  /\ CanStart
  /\ op' = "getAuthStatus"
  /\ args' = EmptyObject
  /\ token' = getAuthStatus.token
  /\ authMethod' = getAuthStatus.authMethod
  /\ out' = getAuthStatus.outcome
  /\ pc' = "done"
  /\ net' = <<>>
  /\ lastResponse' = NoResponse
  /\ result' = NoResult
  /\ NoPaging
  /\ NoReport
  /\ UNCHANGED <<proc, exitCode>>

(* A caller invokes testConnection; the remote may also refuse the         *)
(* credential.                                                             *)
CallTestConnection ==
  /\ CanStart
  /\ \E res \in Responses \cup {Response(401, JsonContentType, Text(MessageObject), NoLink)} :
       LET r == testConnection(res)
       IN  /\ token' = r.token
           /\ authMethod' = r.authMethod
           /\ net' = r.sent
           /\ lastResponse' = r.got
           /\ out' = r.outcome
  /\ op' = "testConnection"
  /\ args' = EmptyObject
  /\ pc' = "done"
  /\ result' = NoResult
  /\ NoPaging
  /\ NoReport
  /\ UNCHANGED <<proc, exitCode>>

(* --------------------------- tool handlers ----------------------------- *)
TextPayload(tpl) == [t |-> "text", tpl |-> tpl]

(* `${prefix}: ${error.message}`                                           *)
ErrorText(prefix, e) == [t |-> "text", tpl |-> prefix \o ": ${message}", error |-> e]

SuccessText(tpl, value) == [t |-> "text", tpl |-> tpl, value |-> value]

NothingToUpdateIssue ==
  TextPayload("Nothing to update. Please specify at least one field (title, body, or state).")
NothingToUpdatePullRequest ==
  TextPayload("Nothing to update. Please specify at least one field.")

(* The guard with the negation of state missing.                           *)
IssueHasNothing_State(a) ==
  ~Truthy(a, "title") /\ ~Truthy(a, "body") /\ Truthy(a, "state")

(* if (!title && !body && !state)                                          *)
IssueHasNothing(a) ==
  ~Truthy(a, "title") /\ ~Truthy(a, "body") /\ ~Truthy(a, "state")

(* if (!title && !body && !state && !base)                                 *)
PullRequestHasNothing(a) ==
  ~Truthy(a, "title") /\ ~Truthy(a, "body") /\ ~Truthy(a, "state") /\ ~Truthy(a, "base")

(* The updates object: one property per truthy argument.                   *)
Updates(a, fields) == [k \in {f \in fields : Truthy(a, f)} |-> a[k]]

(* Render whose catch block reports every error as unknown.               *)
Render_Unknown(r, okTpl, errPrefix) ==
  IF r.outcome.t = "threw"
  THEN ErrorText(errPrefix, [name |-> "Error", tpl |-> "Unknown error"])
  ELSE SuccessText(okTpl, r.outcome.value)

(* A handler that makes one client call and renders its outcome.           *)
Render(r, okTpl, errPrefix) ==
  IF r.outcome.t = "threw" THEN ErrorText(errPrefix, r.outcome.error)
  ELSE SuccessText(okTpl, r.outcome.value)

ToolStart(name, a) ==
  /\ proc = "serving"
  /\ pc = "idle"
  /\ op' = name
  /\ args' = a

update_issue ==
  /\ \E a \in UpdateIssueInputs, res \in Responses :
       /\ ToolStart("update_issue", a)
       /\ IF IssueHasNothing(a)
          THEN /\ net' = <<>>
               /\ lastResponse' = NoResponse
               /\ out' = NoOutcome
               /\ result' = NothingToUpdateIssue
          ELSE LET c == updateIssue(Updates(a, {"title", "body", "state"}))
                   r == request(token, c.url, c.options, res)
               IN  /\ net' = r.sent
                   /\ lastResponse' = r.got
                   /\ out' = r.outcome
                   /\ result' = Render(r, "Issue updated", "Error updating issue")
  /\ pc' = "done"
  /\ NoPaging
  /\ NoReport
  /\ UNCHANGED clientVars

update_pull_request ==
  /\ \E a \in UpdatePullRequestInputs, res \in Responses :
       /\ ToolStart("update_pull_request", a)
       /\ IF PullRequestHasNothing(a)
          THEN /\ net' = <<>>
               /\ lastResponse' = NoResponse
               /\ out' = NoOutcome
               /\ result' = NothingToUpdatePullRequest
          ELSE LET c == updatePullRequest(Updates(a, {"title", "body", "state", "base"}))
                   r == request(token, c.url, c.options, res)
               IN  /\ net' = r.sent
                   /\ lastResponse' = r.got
                   /\ out' = r.outcome
                   /\ result' = Render(r, "Pull Request updated", "Error updating pull request")
  /\ pc' = "done"
  /\ NoPaging
  /\ NoReport
  /\ UNCHANGED clientVars

add_issue_comment ==
  /\ \E b \in InputTexts, res \in Responses :
       /\ ToolStart("add_issue_comment", [body |-> b])
       /\ LET c == addIssueComment(b)
              r == request(token, c.url, c.options, res)
          IN  /\ net' = r.sent
              /\ lastResponse' = r.got
              /\ out' = r.outcome
              /\ result' = Render(r, "Comment added to issue", "Error adding comment")
  /\ pc' = "done"
  /\ NoPaging
  /\ NoReport
  /\ UNCHANGED clientVars

(* A second client call made only when the first one returned.             *)
ThenCall(r1, c2, res2) ==
  IF r1.outcome.t = "threw" THEN r1
  ELSE LET r2 == request(token, c2.url, c2.options, res2)
       IN  [sent |-> r1.sent \o r2.sent, got |-> r2.got, outcome |-> r2.outcome]

(* v.k is neither undefined nor null.                                      *)
Defined(v, k) == v.t = "object" /\ Has(v, k)

(* if (comments.length > 0) comments.forEach(c => ... c.user.login ...)    *)
(* throws for a non-empty string and for an element without a user.        *)
CommentsThrow(comments) ==
  \/ comments.t = "string"
  \/ /\ comments.t = "array"
     /\ \E k \in 1..Len(comments.elems) : ~Defined(comments.elems[k], "user")

(* The text of get_issue reads issue.user.login.                           *)
IssueViewThrows(issue, comments) ==
  ~Defined(issue, "user") \/ CommentsThrow(comments)

(* The text of get_pull_request reads pr.user.login, pr.head.ref and       *)
(* pr.base.ref.                                                            *)
PullRequestViewThrows(pr, comments) ==
  ~Defined(pr, "user") \/ ~Defined(pr, "head") \/ ~Defined(pr, "base")
  \/ CommentsThrow(comments)

(* A handler that makes two client calls and builds its text from both;    *)
(* throws tells whether building the text throws.                          *)
RenderView(r1, r, throws, okTpl, errPrefix) ==
  LET (* The TypeError of reading a property of undefined, or of calling *)
      (* what is not a function, while the text is built inside the try.  *)
      TypeError == [name |-> "TypeError", tpl |-> "Cannot read properties of undefined"]
  IN
  IF r.outcome.t = "threw" THEN ErrorText(errPrefix, r.outcome.error)
  ELSE IF throws THEN ErrorText(errPrefix, TypeError)
  ELSE [t |-> "text", tpl |-> okTpl, value |-> r1.outcome.value,
        comments |-> r.outcome.value]

(* A tool handler that runs to its return in one step: the requests r.sent *)
(* were dispatched, the last client call ended as r.outcome, the handler   *)
(* returned the payload text.                                              *)
ToolDone(r, text) ==
  /\ net' = r.sent
  /\ lastResponse' = r.got
  /\ out' = r.outcome
  /\ result' = text
  /\ pc' = "done"
  /\ NoPaging
  /\ NoReport
  /\ UNCHANGED clientVars

create_issue ==
  \E a \in CreateIssueInputs, res \in Responses :
    /\ ToolStart("create_issue", a)
    /\ LET c == createIssue(a.title, IF Has(a, "body") THEN a.body ELSE <<>>)
           r == request(token, c.url, c.options, res)
       IN  ToolDone(r, Render(r, "Issue created!", "Error creating issue"))

get_issue ==
  \E res1, res2 \in ViewResponses :
    /\ ToolStart("get_issue", EmptyObject)
    /\ LET r1 == request(token, getIssue.url, getIssue.options, res1)
           r == ThenCall(r1, getIssueComments, res2)
           throws == r.outcome.t # "threw"
                     /\ IssueViewThrows(r1.outcome.value, r.outcome.value)
       IN  ToolDone(r, RenderView(r1, r, throws, "Issue #${issue.number}",
                                  "Error getting issue"))

create_pull_request ==
  \E a \in CreatePullRequestInputs, res \in Responses :
    /\ ToolStart("create_pull_request", a)
    /\ LET c == createPullRequest(a.title, a.head, a.base,
                                  IF Has(a, "body") THEN a.body ELSE <<>>,
                                  Has(a, "draft") /\ a.draft)
           r == request(token, c.url, c.options, res)
       IN  ToolDone(r, Render(r, "Pull Request created!", "Error creating pull request"))

get_pull_request ==
  \E res1, res2 \in ViewResponses :
    /\ ToolStart("get_pull_request", EmptyObject)
    /\ LET r1 == request(token, getPullRequest.url, getPullRequest.options, res1)
           r == ThenCall(r1, getPullRequestComments, res2)
           throws == r.outcome.t # "threw"
                     /\ PullRequestViewThrows(r1.outcome.value, r.outcome.value)
       IN  ToolDone(r, RenderView(r1, r, throws,
                                  "Pull Request #${pr.number}", "Error getting pull request"))

get_pr_diff ==
  \E res \in Responses :
    /\ ToolStart("get_pr_diff", EmptyObject)
    /\ LET c == getPullRequestDiff
           r == request(token, c.url, c.options, res)
       IN  ToolDone(r, Render(r, "Diff for Pull Request #${pr_number}", "Error getting diff"))

(* --------------------- get_code_changes_by_date ------------------------ *)
ReportInputs == {EmptyObject, [until |-> <<"2025-02-01">>, author |-> <<"a", "@", "b.c">>]}

(* The zero test left out.                                                 *)
NoCommits_Never(list) == FALSE

(* if (commits.length === 0)                                               *)
NoCommits(list) == Len(list) = 0

Pending == [t |-> "pending"]

(* A degraded record that drops the commit reference.                      *)
Degraded_Bare(commit) == [t |-> "object", files |-> <<>>]

(* { ...commit, files: [] }                                                *)
Degraded(commit) ==
  [k \in DOMAIN commit \cup {"files"} |-> IF k = "files" THEN <<>> ELSE commit[k]]

(* A slice that runs to the end of the list.                                *)
Slice_Rest(list, start) == SubSeq(list, start + 1, Len(list))

(* commits.slice(start, start + BATCH_SIZE)                                *)
Slice(list, start) == SubSeq(list, start + 1, Min(start + BATCH_SIZE, Len(list)))

(* What one callback of batch.map yields once its getCommit has settled    *)
(* with the outcome o.                                                     *)
DetailOrDegraded(commit, o) ==
  IF o.t = "threw" THEN Degraded(commit) ELSE o.value

(* batch.map(...): every callback runs up to its first await, so the       *)
(* fetches of the whole batch are dispatched in input order; a callback    *)
(* whose request throws before fetch settles at once.                      *)
Dispatch(tok, batch) ==
  LET p(k) == Prepare(tok, getCommit(batch[k].sha).url, getCommit(batch[k].sha).options)
  IN  [sent |-> Flatten([k \in 1..Len(batch) |-> p(k).sent]),
       slots |-> [k \in 1..Len(batch) |->
                    IF p(k).outcome.t = "threw"
                    THEN DetailOrDegraded(batch[k], p(k).outcome) ELSE Pending],
       threw |-> {k \in 1..Len(batch) : p(k).outcome.t = "threw"}]

EmptyFold ==
  LET EmptyMap == [entries |-> EmptyObject, keys |-> <<>>]
  IN  [totalAdditions |-> 0, totalDeletions |-> 0, totalChanges |-> 0,
       fileChangesMap |-> EmptyMap]

(* A status collection that keeps every value added: a list, not a set.    *)
SetAdd_List(set, s) == Append(set, s)

(* status.add(s): a Set keeps its values in insertion order, once each.    *)
SetAdd(set, s) == IF \E k \in 1..Len(set) : set[k] = s THEN set ELSE Append(set, s)

(* The inner loop body with the totals accumulated only for a file seen    *)
(* for the first time.                                                     *)
FoldFile_FirstOnly(acc, file) ==
  LET map == acc.fileChangesMap
      existing == Has(map.entries, file.filename)
      stats == IF existing
               THEN [additions |-> map.entries[file.filename].additions + file.additions,
                     deletions |-> map.entries[file.filename].deletions + file.deletions,
                     changes |-> map.entries[file.filename].changes + file.changes,
                     status |-> SetAdd(map.entries[file.filename].status, file.status)]
               ELSE [additions |-> file.additions, deletions |-> file.deletions,
                     changes |-> file.changes, status |-> <<file.status>>]
  IN  [totalAdditions |-> acc.totalAdditions + (IF existing THEN 0 ELSE file.additions),
       totalDeletions |-> acc.totalDeletions + (IF existing THEN 0 ELSE file.deletions),
       totalChanges |-> acc.totalChanges + (IF existing THEN 0 ELSE file.changes),
       fileChangesMap |->
         [entries |-> (file.filename :> stats) @@ map.entries,
          keys |-> IF existing THEN map.keys ELSE Append(map.keys, file.filename)]]

(* The body of the inner loop for one file entry.                          *)
FoldFile(acc, file) ==
  LET map == acc.fileChangesMap
      existing == Has(map.entries, file.filename)
      stats == IF existing
               THEN [additions |-> map.entries[file.filename].additions + file.additions,
                     deletions |-> map.entries[file.filename].deletions + file.deletions,
                     changes |-> map.entries[file.filename].changes + file.changes,
                     status |-> SetAdd(map.entries[file.filename].status, file.status)]
               ELSE [additions |-> file.additions, deletions |-> file.deletions,
                     changes |-> file.changes, status |-> <<file.status>>]
  IN  [totalAdditions |-> acc.totalAdditions + file.additions,
       totalDeletions |-> acc.totalDeletions + file.deletions,
       totalChanges |-> acc.totalChanges + file.changes,
       fileChangesMap |->
         [entries |-> (file.filename :> stats) @@ map.entries,
          keys |-> IF existing THEN map.keys ELSE Append(map.keys, file.filename)]]

RECURSIVE FoldFiles(_, _)
FoldFiles(acc, files) ==
  IF files = <<>> THEN acc ELSE FoldFiles(FoldFile(acc, Head(files)), Tail(files))

(* for (const detail of commitDetails) { if (!detail.files) continue; ... } *)
RECURSIVE FoldDetails(_, _)
FoldDetails(acc, details) ==
  IF details = <<>> THEN acc
  ELSE LET detail == Head(details)
       IN  FoldDetails(IF ~Has(detail, "files") THEN acc ELSE FoldFiles(acc, detail.files),
                       Tail(details))

(* Array.prototype.sort((a, b) => b.changes - a.changes): stable, by      *)
(* descending changes.                                                     *)
RECURSIVE InsertRanked(_, _)
InsertRanked(sorted, e) ==
  IF sorted = <<>> THEN <<e>>
  ELSE IF e.changes > Head(sorted).changes THEN <<e>> \o sorted
  ELSE <<Head(sorted)>> \o InsertRanked(Tail(sorted), e)

RECURSIVE Ranked(_)
Ranked(list) ==
  IF list = <<>> THEN <<>>
  ELSE InsertRanked(Ranked(SubSeq(list, 1, Len(list) - 1)), list[Len(list)])

(* A ranking that starts from the filenames last seen first.               *)
FilesArray_LastFirst(map) ==
  Ranked([k \in 1..Len(map.keys) |->
            LET n == map.keys[Len(map.keys) + 1 - k]
            IN  [filename |-> n,
                 additions |-> map.entries[n].additions,
                 deletions |-> map.entries[n].deletions,
                 changes |-> map.entries[n].changes,
                 status |-> map.entries[n].status]])

(* Array.from(fileChangesMap.entries()).map(...).sort(...)                 *)
FilesArray(map) ==
  Ranked([k \in 1..Len(map.keys) |->
            [filename |-> map.keys[k],
             additions |-> map.entries[map.keys[k]].additions,
             deletions |-> map.entries[map.keys[k]].deletions,
             changes |-> map.entries[map.keys[k]].changes,
             status |-> map.entries[map.keys[k]].status]])

displayLimit == 50

(* Phases 3 and 4: the fold and the report built from it.                  *)
ReportText(list, details) ==
  LET f == FoldDetails(EmptyFold, details)
      filesArray == FilesArray(f.fileChangesMap)
  IN  [t |-> "text", tpl |-> "Code Changes in ${owner}/${repo}",
       commits |-> Len(list),
       filesChanged |-> Len(f.fileChangesMap.keys),
       totalChanges |-> f.totalChanges,
       totalAdditions |-> f.totalAdditions,
       totalDeletions |-> f.totalDeletions,
       files |-> SubSeq(filesArray, 1, Min(displayLimit, Len(filesArray))),
       recentCommits |-> SubSeq(list, 1, Min(10, Len(list)))]

(* The value goes to the first slot still pending: completion order.       *)
SettleSlot_FirstFree(slots, k, v) ==
  LET first == CHOOSE x \in 1..Len(slots) :
                 slots[x] = Pending /\ \A y \in 1..(x - 1) : slots[y] # Pending
  IN  [slots EXCEPT ![first] = v]

(* Promise.all keeps the position of each promise: the callback of the     *)
(* k-th element of the batch resolves the k-th element of the joined list. *)
SettleSlot(slots, k, v) == [slots EXCEPT ![k] = v]

AllSettled(slots) == \A k \in 1..Len(slots) : slots[k] # Pending

(* A test that also paces after a batch that ends the list.                *)
MoreBatches_Inclusive(list, start) == start + BATCH_SIZE <= Len(list)

(* if (i + BATCH_SIZE < commits.length)                                    *)
MoreBatches(list, start) == start + BATCH_SIZE < Len(list)

(* await Promise.all(...) of the batch that starts at `start` has resolved *)
(* with slots: push, then pace or finish.                                  *)
Join(list, details, slots, start, paced) ==
  /\ commitDetails' = details \o slots
  /\ batchDetails' = <<>>
  /\ i' = start
  /\ IF MoreBatches(list, start)
     THEN /\ pc' = "delay"
          /\ delays' = paced + 1
          /\ result' = NoResult
     ELSE /\ pc' = "done"
          /\ delays' = paced
          /\ result' = ReportText(list, details \o slots)

(* The handler from the dispatch of the batch that starts at `start` up    *)
(* to its next await: the fetches of the batch, and, when none is          *)
(* pending, the join.                                                      *)
StartBatch(list, details, start, wire, paced) ==
  LET d == Dispatch(token, Slice(list, start))
  IN  /\ net' = wire \o d.sent
      /\ failed' = {k \in failed : k <= start} \cup {start + k : k \in d.threw}
      /\ IF AllSettled(d.slots)
         THEN Join(list, details, d.slots, start, paced)
         ELSE /\ i' = start
              /\ batchDetails' = d.slots
              /\ commitDetails' = details
              /\ pc' = "fetch"
              /\ result' = NoResult
              /\ delays' = paced

get_code_changes_by_date ==
  /\ \E a \in ReportInputs :
       /\ ToolStart("get_code_changes_by_date", a)
       /\ LET c == getCommitsByDateRange(a @@ [paginationOptions |-> [per_page |-> 100]])
          IN  currentUrl' = FirstPageUrl(c.url, c.options)
  /\ pc' = "page"
  /\ net' = <<>>
  /\ lastResponse' = NoResponse
  /\ out' = NoOutcome
  /\ result' = NoResult
  /\ results' = <<>>
  /\ pageCount' = 0
  /\ pages' = <<>>
  /\ NoReport
  /\ UNCHANGED clientVars

(* Phase 1: one iteration of requestPaginated; when it returns, its last   *)
(* response is gone with its locals and the handler goes on to the         *)
(* zero-commit report or to the first batch.                               *)
ReportPageOf(responses) ==
  LET NoCommitsFound == TextPayload("No commits found in ${owner}/${repo} from ${since}")
  IN
  /\ op = "get_code_changes_by_date"
  /\ pc = "page"
  /\ \E res \in responses :
       LET st == [results |-> results, currentUrl |-> currentUrl, pageCount |-> pageCount]
           r == PageIteration(token, st, [per_page |-> 100], res)
       IN  /\ lastResponse' = IF r.outcome.t = "returned" THEN NoResponse ELSE r.got
           /\ out' = r.outcome
           /\ CASE r.outcome.t = "none" ->
                     /\ results' = r.results
                     /\ currentUrl' = r.currentUrl
                     /\ pageCount' = r.pageCount
                     /\ pages' = pages \o r.fetched
                     /\ net' = net \o r.sent
                     /\ pc' = "page"
                     /\ result' = NoResult
                     /\ UNCHANGED reportVars
                [] r.outcome.t = "threw" ->
                     /\ NoPaging
                     /\ net' = net \o r.sent
                     /\ pc' = "done"
                     /\ result' = ErrorText("Error getting code changes", r.outcome.error)
                     /\ UNCHANGED reportVars
                [] r.outcome.t = "returned" /\ NoCommits(r.results) ->
                     /\ NoPaging
                     /\ net' = net \o r.sent
                     /\ pc' = "done"
                     /\ result' = NoCommitsFound
                     /\ UNCHANGED reportVars
                [] r.outcome.t = "returned" /\ ~NoCommits(r.results) ->
                     /\ NoPaging
                     /\ commits' = r.results
                     /\ StartBatch(r.results, <<>>, 0, net \o r.sent, 0)
  /\ UNCHANGED <<clientVars, op, args>>

ReportPage == ReportPageOf(PageResponses(pageCount + 1, Len(results)))

ReportLongPage == ReportPageOf(LongPageResponses(pageCount + 1, Len(results)))

(* Phase 2: the fetch of one slot settles; the last one to settle          *)
(* resolves Promise.all.                                                   *)
ReportSettle ==
  /\ op = "get_code_changes_by_date"
  /\ pc = "fetch"
  /\ \E k \in 1..Len(batchDetails) :
       /\ batchDetails[k] = Pending
       /\ \E res \in DetailResponses(commits[i + k].sha, Len(commits)) :
            LET slots == SettleSlot(batchDetails, k, DetailOrDegraded(commits[i + k], Settle(res)))
            IN  /\ failed' = IF Settle(res).t = "threw" THEN failed \cup {i + k} ELSE failed
                /\ IF AllSettled(slots)
                   THEN Join(commits, commitDetails, slots, i, delays)
                   ELSE /\ batchDetails' = slots
                        /\ UNCHANGED <<commitDetails, i, delays, pc, result>>
  /\ UNCHANGED <<clientVars, op, args, net, out, lastResponse, pageVars, commits>>

(* The pacing delay has elapsed: the next batch is dispatched.             *)
ReportDelay ==
  /\ op = "get_code_changes_by_date"
  /\ pc = "delay"
  /\ StartBatch(commits, commitDetails, i + BATCH_SIZE, net, delays)
  /\ UNCHANGED <<clientVars, op, args, lastResponse, out, pageVars, commits>>

(* --------------------------- specification ----------------------------- *)
vars == <<token, authMethod, proc, exitCode, op, args, pc, net, lastResponse, out, result,
          results, currentUrl, pageCount, pages,
          commits, commitDetails, i, batchDetails, delays, failed>>

Init ==
  /\ token = NULL
  /\ authMethod = NULL
  /\ proc = "starting"
  /\ exitCode = NoExit
  /\ op = "idle"
  /\ args = EmptyObject
  /\ pc = "idle"
  /\ net = <<>>
  /\ lastResponse = NoResponse
  /\ out = NoOutcome
  /\ result = NoResult
  /\ results = <<>>
  /\ currentUrl = <<>>
  /\ pageCount = 0
  /\ pages = <<>>
  /\ commits = <<>>
  /\ commitDetails = <<>>
  /\ i = 0
  /\ batchDetails = <<>>
  /\ delays = 0
  /\ failed = {}

(* The client and the single-call tools.                                   *)
Next ==
  \/ Main
  \/ Return
  \/ ClientRequest
  \/ ClientPaginate
  \/ ClientPage
  \/ create_issue
  \/ get_issue
  \/ update_issue
  \/ add_issue_comment
  \/ create_pull_request
  \/ get_pull_request
  \/ update_pull_request
  \/ get_pr_diff

Spec == Init /\ [][Next]_vars

(* The report tool against a remote with a short commit list.             *)
NextReport ==
  \/ Main
  \/ Return
  \/ get_code_changes_by_date
  \/ ReportPage
  \/ ReportSettle

SpecReport == Init /\ [][NextReport]_vars

(* The report tool against a remote whose commit list spans two batches.  *)
NextBatch ==
  \/ Main
  \/ Return
  \/ get_code_changes_by_date
  \/ ReportLongPage
  \/ ReportSettle
  \/ ReportDelay

SpecBatch == Init /\ [][NextBatch]_vars

(* The nine registered tools.                                              *)
NextTools ==
  \/ Main
  \/ Return
  \/ create_issue
  \/ get_issue
  \/ update_issue
  \/ add_issue_comment
  \/ create_pull_request
  \/ get_pull_request
  \/ update_pull_request
  \/ get_pr_diff
  \/ get_code_changes_by_date
  \/ ReportPage
  \/ ReportSettle

SpecTools == Init /\ [][NextTools]_vars

(* The helpers of utils/helpers.ts called on their own.                    *)
NextHelpers ==
  \/ CallParseLinkHeader
  \/ Return

SpecHelpers == Init /\ [][NextHelpers]_vars

(* The client called directly, without the tools.                         *)
NextClient ==
  \/ Main
  \/ Return
  \/ ClientRequest
  \/ ClientPaginate
  \/ ClientPage
  \/ CallGetAuthStatus
  \/ CallTestConnection

SpecClient == Init /\ [][NextClient]_vars

(* ------------------------------ claims --------------------------------- *)
Paginating == op = "getCommitsByDateRange"
PaginationOptions == getCommitsByDateRange(args).options
SingleMethods == {"getIssue", "addIssueComment", "getCommit"}
Reporting == op = "get_code_changes_by_date"

(* C1: a paginated retrieval without a page cap that returns, returns the  *)
(* concatenation of the per-page arrays in fetch order; while it runs the  *)
(* accumulator is the concatenation of the pages fetched so far.           *)
C1_Concatenation ==
  Paginating /\ ~Has(PaginationOptions, "max_pages") =>
    /\ results = Flatten(pages)
    /\ pc = "done" /\ out.t = "returned" =>
         /\ out.value.elems = Flatten(pages)
         /\ Len(net) = Len(pages)

C1_Witness ==
  /\ Paginating /\ ~Has(PaginationOptions, "max_pages")
  /\ pc = "done" /\ out.t = "returned"
  /\ Len(pages) = 2 /\ pages[1] # <<>> /\ pages[2] # <<>> /\ pages[1] # pages[2]

(* C2: with a page cap N >= 0 supplied as max_pages, requestPaginated      *)
(* issues at most N page requests.                                         *)
C2_AtMostCapRequests ==
  Paginating /\ Has(PaginationOptions, "max_pages") =>
    Len(net) <= PaginationOptions.max_pages

(* C3: a report over a non-empty commit list completes with the report     *)
(* whatever fetches fail: one record per commit, and every failed fetch    *)
(* is replaced by the commit reference with an empty file list.            *)
C3_DegradedRecords ==
  Reporting /\ pc = "done" /\ commits # <<>> =>
    /\ result.tpl = "Code Changes in ${owner}/${repo}"
    /\ ~Has(result, "error")
    /\ result.commits = Len(commits)
    /\ Len(commitDetails) = Len(commits)
    /\ \A k \in failed :
         /\ Has(commitDetails[k], "files") /\ commitDetails[k].files = <<>>
         /\ \A f \in DOMAIN commits[k] :
              Has(commitDetails[k], f) /\ commitDetails[k][f] = commits[k][f]

C3_Witness ==
  /\ Reporting /\ pc = "done"
  /\ Len(commits) = 2
  /\ failed = {1, 2}

(* All file entries of the details that carry a file list.                 *)
RECURSIVE AllFiles(_)
AllFiles(details) ==
  IF details = <<>> THEN <<>>
  ELSE (IF Has(Head(details), "files") THEN Head(details).files ELSE <<>>)
       \o AllFiles(Tail(details))

RECURSIVE SumOf(_, _)
SumOf(files, field) ==
  IF files = <<>> THEN 0 ELSE Head(files)[field] + SumOf(Tail(files), field)

(* C4: the grand totals of the report are the sums of additions,           *)
(* deletions and changes over every file entry of every detail; a          *)
(* degraded detail adds nothing.                                           *)
C4_Totals ==
  Reporting /\ pc = "done" /\ commits # <<>> =>
    LET files == AllFiles([k \in 1..Len(commitDetails) |->
                             IF k \in failed THEN Commit(commits[k].sha) ELSE commitDetails[k]])
    IN  /\ result.totalAdditions = SumOf(files, "additions")
        /\ result.totalDeletions = SumOf(files, "deletions")
        /\ result.totalChanges = SumOf(files, "changes")

C4_Witness ==
  /\ Reporting /\ pc = "done"
  /\ Len(commits) = 2
  /\ failed = {1}
  /\ Has(commitDetails[2], "files") /\ Len(commitDetails[2].files) = 2
  /\ result.totalChanges = 4

(* C5: update_issue and update_pull_request called with every optional     *)
(* field omitted dispatch no request and return the nothing-to-update text. *)
C5_NothingToUpdate ==
  /\ op = "update_issue" /\ pc = "done" /\ DOMAIN args = {} =>
       net = <<>> /\ result = NothingToUpdateIssue
  /\ op = "update_pull_request" /\ pc = "done" /\ DOMAIN args = {} =>
       net = <<>> /\ result = NothingToUpdatePullRequest

C5_Witness ==
  op = "update_issue" /\ pc = "done" /\ DOMAIN args = {} /\ token # NULL

(* C6: the comment body add_issue_comment submits is the provenance marker *)
(* followed by the caller's text, unchanged.                               *)
C6_MarkerPrefix ==
  op \in {"add_issue_comment", "addIssueComment"} /\ pc = "done" /\ net # <<>> =>
    LET sent == net[1].body.of.body
        m == Len(AI_COMMENT_IDENTIFIER)
    IN  /\ Len(net) = 1
        /\ Len(sent) = m + Len(args.body)
        /\ \A k \in 1..m : sent[k] = AI_COMMENT_IDENTIFIER[k]
        /\ \A k \in 1..Len(args.body) : sent[m + k] = args.body[k]

C6_Witness ==
  /\ op = "add_issue_comment" /\ pc = "done" /\ net # <<>>
  /\ args.body = AI_COMMENT_IDENTIFIER

(* C7: with no credential held, a single-resource request fails with the   *)
(* authentication error and dispatches nothing.                            *)
C7_AuthRequired ==
  op \in SingleMethods /\ pc = "done" /\ token = NULL =>
    net = <<>> /\ out = Threw(AuthRequired)

C7_Witness ==
  op = "getCommit" /\ pc = "done" /\ token = NULL /\ out.t = "threw"

(* C8: with no credential held, a paginated request fails with the         *)
(* authentication error and dispatches no page request.                    *)
C8_PaginatedAuthRequired ==
  Paginating /\ token = NULL =>
    /\ net = <<>>
    /\ pc = "done" => out = Threw(AuthRequired)

(* C9: a non-2xx response makes the request fail with the error that       *)
(* carries the status and the body (raw text, or the stringified parsed    *)
(* body); a 2xx response never yields that error.                          *)
C9_StatusError ==
  op \in SingleMethods /\ pc = "done" /\ lastResponse # NoResponse =>
    IF IsOk(lastResponse)
    THEN ~(out.t = "threw" /\ Has(out.error, "status"))
    ELSE /\ out.t = "threw"
         /\ Has(out.error, "status")
         /\ out.error.status = lastResponse.status
         /\ \/ out.error.msg = lastResponse.text
            \/ /\ lastResponse.text.of.t # "nonjson"
               /\ out.error.msg = JSONstringify(lastResponse.text.of)

(* C10: a response declared as JSON whose body does not parse never fails  *)
(* the request with a parse error: the body falls back to the raw text.    *)
C10_ParseFallback ==
  /\ op \in SingleMethods /\ pc = "done" /\ lastResponse # NoResponse
  /\ lastResponse.ct = JsonContentType /\ lastResponse.text.of.t = "nonjson"
  => IF IsOk(lastResponse)
     THEN out = Returned(lastResponse.text)
     ELSE out = Threw(createGitHubError(lastResponse.status, lastResponse.text))


(* The record the entries of a header describe: each whole entry gives     *)
(* its relation name the URL between its angle brackets, a later entry     *)
(* replacing an earlier one of the same name; an entry lacking a part      *)
(* gives nothing.                                                          *)
RECURSIVE ExpectedLinks(_)
ExpectedLinks(entries) ==
  IF entries = <<>> THEN EmptyObject
  ELSE LET n == Len(entries)
           before == ExpectedLinks(SubSeq(entries, 1, n - 1))
           e == entries[n]
       IN  IF e.form # "full" THEN before
           ELSE [k \in DOMAIN before \cup {e.rel} |-> IF k = e.rel THEN e.url ELSE before[k]]

(* C11: parseLinkHeader maps a header of <url>; rel="name" entries to the  *)
(* record with one key per relation name whose value is the entry's URL    *)
(* without the angle brackets; a null or empty header gives the empty      *)
(* record; entries lacking a URL part or a rel part are skipped.           *)
C11_LinkRecord ==
  op = "parseLinkHeader" /\ pc = "done" =>
    /\ out.t = "returned"
    /\ args.linkHeader = NoLink => out.value = EmptyObject
    /\ \A es \in EntryLists :
         args.linkHeader = Link(es) => out.value = ExpectedLinks(es)

(* C12: when the credential provider answers nothing or an answer with     *)
(* authenticated = false, initialize fails with the gh auth login message, *)
(* no token is stored, and the process exits with a non-zero code; once    *)
(* exited, the server transport is never connected.                        *)
C12_StartupFails ==
  /\ [](op = "main" /\ pc = "done"
          /\ (lastResponse.t = "null" \/ ~lastResponse.authenticated) =>
        /\ out = Threw(NotAuthenticated)
        /\ token = NULL /\ authMethod = NULL
        /\ proc = "exited" /\ exitCode > 0)
  /\ [][proc = "exited" => proc' = "exited" /\ token' = NULL]_vars

C12_Witness ==
  /\ op = "main" /\ pc = "done"
  /\ lastResponse = [t |-> "object", token |-> "gho_stale", authenticated |-> FALSE]
  /\ proc = "exited"

(* The prefix of the failure text of each tool.                            *)
ErrorPrefix ==
  [create_issue |-> "Error creating issue",
   get_issue |-> "Error getting issue",
   update_issue |-> "Error updating issue",
   add_issue_comment |-> "Error adding comment",
   create_pull_request |-> "Error creating pull request",
   get_pull_request |-> "Error getting pull request",
   update_pull_request |-> "Error updating pull request",
   get_pr_diff |-> "Error getting diff",
   get_code_changes_by_date |-> "Error getting code changes"]
Tools == DOMAIN ErrorPrefix
IsFailureText == result.t = "text" /\ result.tpl = ErrorPrefix[op] \o ": ${message}"

(* C13 as stated: whenever a client call of a tool raised an error, a      *)
(* per-commit detail fetch included, the handler returns one failure text  *)
(* and the process goes on serving.                                        *)
C13_EveryErrorFails ==
  op \in Tools /\ pc = "done" /\ (out.t = "threw" \/ failed # {}) =>
    IsFailureText /\ proc = "serving" /\ exitCode = NoExit

(* C13 amended: an error raised by a client call of a tool is caught in    *)
(* the handler, which returns the one failure text that carries it, except *)
(* that get_code_changes_by_date recovers a failed per-commit detail fetch *)
(* and still returns its report; no tool lets an error reach the process.  *)
C13_ErrorsCaught ==
  op \in Tools =>
    /\ proc = "serving" /\ exitCode = NoExit
    /\ pc = "done" /\ out.t = "threw" =>
         result = ErrorText(ErrorPrefix[op], out.error)
    /\ pc = "done" /\ out.t # "threw" /\ failed # {} =>
         result.tpl = "Code Changes in ${owner}/${repo}" /\ ~Has(result, "error")

C13_Witness ==
  /\ op = "get_issue" /\ pc = "done"
  /\ Len(net) = 2
  /\ out = Threw(FetchFailed)
  /\ IsFailureText

(* A request for the detail of one commit.                                 *)
IsDetailRequest(call) == \E k \in 1..Len(call.url) : call.url[k] = "/repos/o/r/commits/"

(* C14: when the paginated commit query returns no commit, the report      *)
(* tool returns the "No commits found" text, has dispatched no detail      *)
(* fetch and has aggregated nothing.                                       *)
C14_NoCommits ==
  Reporting /\ pc = "done" /\ out.t = "returned" /\ out.value.elems = <<>> =>
    /\ result.t = "text"
    /\ result.tpl = "No commits found in ${owner}/${repo} from ${since}"
    /\ DOMAIN result = {"t", "tpl"}
    /\ \A k \in 1..Len(net) : ~IsDetailRequest(net[k])
    /\ commitDetails = <<>> /\ batchDetails = <<>> /\ failed = {}

C14_Witness ==
  /\ Reporting /\ pc = "done" /\ out.t = "returned" /\ out.value.elems = <<>>
  /\ Len(net) = 2

(* The file entries of the details whose fetch did not fail.              *)
SeenFiles ==
  AllFiles([k \in 1..Len(commitDetails) |->
              IF k \in failed THEN Commit(commits[k].sha) ELSE commitDetails[k]])

(* The sum of a field over the entries of files that carry filename n.     *)
RECURSIVE SumFor(_, _, _)
SumFor(files, n, field) ==
  IF files = <<>> THEN 0
  ELSE (IF Head(files).filename = n THEN Head(files)[field] ELSE 0)
       + SumFor(Tail(files), n, field)

(* C15: the per-filename aggregate of the report holds exactly one record  *)
(* per distinct filename seen in non-degraded details; its additions,      *)
(* deletions and changes are the sums over the entries with that filename, *)
(* and its status collection holds each status seen for the file once.     *)
C15_PerFileAggregate ==
  Reporting /\ pc = "done" /\ commits # <<>> =>
    LET files == SeenFiles
        names == {files[k].filename : k \in 1..Len(files)}
        agg == result.files
    IN  /\ result.filesChanged = Cardinality(names)
        /\ Len(agg) = Cardinality(names)
        /\ \A k \in 1..Len(agg) : agg[k].filename \in names
        /\ \A n \in names :
             \E k \in 1..Len(agg) :
               /\ agg[k].filename = n
               /\ \A j \in 1..Len(agg) : agg[j].filename = n => j = k
               /\ agg[k].additions = SumFor(files, n, "additions")
               /\ agg[k].deletions = SumFor(files, n, "deletions")
               /\ agg[k].changes = SumFor(files, n, "changes")
               /\ {agg[k].status[j] : j \in 1..Len(agg[k].status)}
                    = {files[j].status : j \in {x \in 1..Len(files) : files[x].filename = n}}
               /\ \A x, y \in 1..Len(agg[k].status) :
                    agg[k].status[x] = agg[k].status[y] => x = y

C15_Witness ==
  /\ Reporting /\ pc = "done" /\ Len(commits) = 2 /\ failed = {}
  /\ \E k \in 1..Len(result.files) :
       /\ result.files[k].filename = "a.txt"
       /\ result.files[k].additions = 5
       /\ result.files[k].deletions = 2
       /\ result.files[k].changes = 7
       /\ Len(result.files[k].status) = 2
  /\ Len(result.files) = 2

(* The detail requests dispatched so far, in dispatch order.               *)
RECURSIVE DetailRequests(_)
DetailRequests(calls) ==
  IF calls = <<>> THEN <<>>
  ELSE (IF IsDetailRequest(Head(calls)) THEN <<Head(calls)>> ELSE <<>>)
       \o DetailRequests(Tail(calls))

(* The positions in commits whose detail fetch is in flight.               *)
InFlight == {i + k : k \in {x \in 1..Len(batchDetails) : batchDetails[x] = Pending}}

(* C16: in the detail-fetch phase the fetches in flight all belong to one  *)
(* batch of at most BATCH_SIZE consecutive commits; the fetches were       *)
(* dispatched in input order, batch by batch, and the fetches of a batch   *)
(* are dispatched only when every earlier batch has settled and was        *)
(* joined.                                                                 *)
C16_OneBatchInFlight ==
  Reporting /\ commits # <<>> =>
    LET sent == DetailRequests(net)
    IN  /\ i % BATCH_SIZE = 0
        /\ Cardinality(InFlight) <= BATCH_SIZE
        /\ InFlight \subseteq (i + 1)..Min(i + BATCH_SIZE, Len(commits))
        /\ \A k \in 1..Len(sent) :
             k <= Len(commits) /\ sent[k].url = FullUrl(getCommit(commits[k].sha).url)
        /\ pc = "fetch" =>
             /\ Len(sent) = Min(i + BATCH_SIZE, Len(commits))
             /\ Len(commitDetails) = i
             /\ Len(batchDetails) = Len(sent) - i
        /\ pc \in {"delay", "done"} =>
             /\ InFlight = {}
             /\ Len(sent) = Len(commitDetails)
             /\ Len(sent) = Min(i + BATCH_SIZE, Len(commits))

C16_Witness ==
  /\ Reporting /\ pc = "fetch"
  /\ i = BATCH_SIZE
  /\ InFlight = {BATCH_SIZE + 1}
  /\ Len(commitDetails) = BATCH_SIZE

(* The record d is the one of commit k: the degraded record of that commit *)
(* when its fetch failed, else a detail the remote may serve for it.       *)
IsRecordOf(d, k) ==
  IF k \in failed
  THEN d = Degraded(commits[k])
  ELSE \E res \in DetailResponses(commits[k].sha, Len(commits)) :
         Settle(res).t = "returned" /\ d = Settle(res).value

(* C17: whatever the order in which the fetches of a batch settle, the     *)
(* detail list holds one record per commit, record k being the one of      *)
(* commit k, and the report is the fold of that list.                      *)
C17_OrderIndependent ==
  Reporting /\ commits # <<>> =>
    /\ Len(commitDetails) <= Len(commits)
    /\ \A k \in 1..Len(commitDetails) : IsRecordOf(commitDetails[k], k)
    /\ \A k \in 1..Len(batchDetails) :
         batchDetails[k] # Pending => IsRecordOf(batchDetails[k], i + k)
    /\ pc = "done" =>
         /\ Len(commitDetails) = Len(commits)
         /\ result = ReportText(commits, commitDetails)

(* The second fetch of the first batch has settled before the first.       *)
C17_Witness ==
  /\ Reporting /\ pc = "fetch" /\ i = 0
  /\ Len(batchDetails) = BATCH_SIZE
  /\ batchDetails[1] = Pending
  /\ batchDetails[2] # Pending
  /\ batchDetails[2].sha = commits[2].sha
  /\ batchDetails[BATCH_SIZE] # Pending
  /\ failed = {BATCH_SIZE}

(* The number of batches a list of n commits is split into.                *)
Batches(n) == (n + BATCH_SIZE - 1) \div BATCH_SIZE

(* C18: a commit list split into B batches incurs exactly B - 1 pacing     *)
(* delays: one after each batch but the last, started when the batch has   *)
(* fully settled and over before the next batch is dispatched; a list of   *)
(* at most BATCH_SIZE commits incurs none.                                 *)
C18_PacingDelays ==
  Reporting /\ commits # <<>> =>
    /\ delays <= Batches(Len(commits)) - 1
    /\ pc = "fetch" => delays = i \div BATCH_SIZE
    /\ pc = "delay" =>
         /\ delays = i \div BATCH_SIZE + 1
         /\ InFlight = {}
         /\ Len(commitDetails) = i + BATCH_SIZE
         /\ Len(DetailRequests(net)) = i + BATCH_SIZE
         /\ i + BATCH_SIZE < Len(commits)
    /\ pc = "done" =>
         /\ delays = Batches(Len(commits)) - 1
         /\ Len(commits) <= BATCH_SIZE => delays = 0

C18_Witness ==
  /\ Reporting /\ pc = "done"
  /\ Len(commits) = BATCH_SIZE + 1
  /\ Len(commitDetails) = BATCH_SIZE + 1
  /\ delays = 1

(* The error a page response that is not a success raises: the parse      *)
(* error of its body, else the error that carries its status and body.     *)
PageError(res) ==
  LET body == parseResponseBody(res)
  IN  IF body.t = "threw" THEN body
      ELSE Threw(createGitHubError(res.status, body.value))

(* C19: when the request for a page fails, by a non-2xx response or by a   *)
(* transport error, requestPaginated fails with that error: the page was   *)
(* requested once, no later page is requested and the items of the         *)
(* earlier pages are not returned.                                         *)
C19_FailedPageAborts ==
  Paginating =>
    /\ Len(net) > Len(pages) =>
         pc = "done" /\ out.t = "threw" /\ Len(net) = Len(pages) + 1
    /\ pc = "done" /\ lastResponse # NoResponse /\ lastResponse.status \notin 200..299 =>
         /\ out = PageError(lastResponse)
         /\ Len(net) = Len(pages) + 1
    /\ pc = "done" /\ lastResponse = NoResponse /\ Len(net) > Len(pages) =>
         out = Threw(FetchFailed)

(* The second page is refused after a first page that held items.          *)
C19_Witness ==
  /\ Paginating /\ pc = "done"
  /\ Len(pages) = 1 /\ Len(pages[1]) > 0
  /\ Len(net) = 2
  /\ lastResponse # NoResponse /\ lastResponse.status = 404
  /\ out = Threw(createGitHubError(404, MessageObject))

(* The body of the response is an array: it is declared as JSON and      *)
(* parses to one.                                                          *)
IsArrayBody(res) == res.ct = JsonContentType /\ res.text.of.t = "array"

(* C20: a 2xx page whose body is not an array makes requestPaginated fail  *)
(* with the "Expected array response" error, which carries no status,      *)
(* without a further request and without items; a non-2xx page yields the  *)
(* status-bearing API error whatever its body.                             *)
C20_ExpectedArray ==
  Paginating /\ pc = "done" /\ lastResponse # NoResponse =>
    IF lastResponse.status \in 200..299
    THEN ~IsArrayBody(lastResponse) =>
           /\ out = Threw(ShapeError)
           /\ ~Has(out.error, "status")
           /\ Len(net) = Len(pages) + 1
    ELSE /\ out.t = "threw"
         /\ Has(out.error, "status")
         /\ out.error.status = lastResponse.status

(* The last response is a page that was accepted and names no next page:  *)
(* it has no Link header, or a header without a non-empty next relation.   *)
LastPageEndsChain ==
  /\ lastResponse # NoResponse
  /\ lastResponse.status \in 200..299
  /\ IsArrayBody(lastResponse)
  /\ lastResponse.link \notin HeadersWithNext

(* C21: requestPaginated returns as soon as an accepted page names no next *)
(* page, without a further request; so the loop ends with the remote's     *)
(* chain of pages, at most MaxPages long, and a call with a page cap N     *)
(* ends in its iteration N + 1 at the latest, however long the chain.      *)
C21_LoopEnds ==
  Paginating =>
    /\ LastPageEndsChain =>
         /\ pc = "done"
         /\ out = Returned(JsonArray(results))
         /\ Len(net) = Len(pages)
    /\ pageCount <= MaxPages
    /\ Has(PaginationOptions, "max_pages") => pageCount <= PaginationOptions.max_pages + 1

(* C22: when a page cap N >= 1 stops the loop while a next link remains,   *)
(* requestPaginated does not fail: it returns the concatenation of exactly *)
(* the first N pages, having requested no other page.                      *)
C22_PartialResult ==
  /\ Paginating /\ pc = "done"
  /\ Has(PaginationOptions, "max_pages") /\ PaginationOptions.max_pages >= 1
  /\ pageCount > PaginationOptions.max_pages
  => /\ out = Returned(JsonArray(Flatten(pages)))
     /\ Len(pages) = PaginationOptions.max_pages
     /\ Len(net) = PaginationOptions.max_pages
     /\ currentUrl # <<>>

C22_Witness ==
  /\ Paginating /\ pc = "done"
  /\ Has(PaginationOptions, "max_pages") /\ PaginationOptions.max_pages = 1
  /\ pageCount = 2
  /\ currentUrl = NextUrl
  /\ Len(pages) = 1 /\ Len(pages[1]) = 2
  /\ out = Returned(JsonArray(pages[1]))

(* The optional fields of the two update tools.                            *)
OptionalFields ==
  [update_issue |-> {"title", "body", "state"},
   update_pull_request |-> {"title", "body", "state", "base"}]

(* The optional fields the caller supplied, each with the supplied value.  *)
Supplied == [k \in DOMAIN args \cap OptionalFields[op] |-> args[k]]

(* C23: update_issue and update_pull_request called with at least one      *)
(* optional field send one PATCH whose payload holds exactly the supplied  *)
(* fields with the supplied values, an empty string included.              *)
C23_PatchPayload ==
  op \in DOMAIN OptionalFields /\ pc = "done" /\ DOMAIN Supplied # {} =>
    /\ Len(net) = 1
    /\ net[1].method = "PATCH"
    /\ net[1].body = JSONstringify(Supplied)

DiffMediaType == "application/vnd.github.v3.diff"

(* C24: every dispatched request carries the protocol headers Accept,      *)
(* X-GitHub-Api-Version 2022-11-28 and User-Agent mcp-github/1.0.0, a      *)
(* header the caller supplies replacing the one of its name: get_pr_diff   *)
(* requests the URL get_pull_request requests, with the diff media type    *)
(* as Accept.                                                              *)
C24_ProtocolHeaders ==
  /\ \A k \in 1..Len(net) :
       /\ {"Accept", "X-GitHub-Api-Version", "User-Agent"} \subseteq DOMAIN net[k].headers
       /\ net[k].headers["X-GitHub-Api-Version"] = "2022-11-28"
       /\ net[k].headers["User-Agent"] = "mcp-github/1.0.0"
       /\ net[k].headers["Accept"] =
            IF op = "get_pr_diff" THEN DiffMediaType ELSE "application/vnd.github.v3+json"
  /\ op = "get_pr_diff" /\ pc = "done" =>
       /\ Len(net) = 1
       /\ net[1].url = <<GITHUB_API_BASE, "/repos/o/r/pulls/1">>
       /\ net[1].method = "GET"
  /\ op = "get_pull_request" /\ pc = "done" =>
       /\ Len(net) >= 1
       /\ net[1].url = <<GITHUB_API_BASE, "/repos/o/r/pulls/1">>

C24_Witness ==
  /\ op = "get_pr_diff" /\ pc = "done"
  /\ Len(net) = 1
  /\ net[1].headers["Accept"] = DiffMediaType
  /\ net[1].headers["Authorization"] = "Bearer gho_token"
  /\ out.t = "returned"

(* The position in the fold at which filename n is first encountered.      *)
FirstSeen(n) ==
  CHOOSE k \in 1..Len(SeenFiles) :
    /\ SeenFiles[k].filename = n
    /\ \A j \in 1..(k - 1) : SeenFiles[j].filename # n

(* C25: the ranked file list is ordered by non-increasing accumulated      *)
(* changes, and files with equal changes keep the order in which their     *)
(* filenames were first encountered in the fold.                           *)
C25_Ranking ==
  Reporting /\ pc = "done" /\ commits # <<>> =>
    \A a, b \in 1..Len(result.files) :
      a < b =>
        \/ result.files[a].changes > result.files[b].changes
        \/ /\ result.files[a].changes = result.files[b].changes
           /\ FirstSeen(result.files[a].filename) < FirstSeen(result.files[b].filename)

(* Two files tie, the one of the second commit's detail being a.txt.       *)
C25_Witness ==
  /\ Reporting /\ pc = "done" /\ Len(commits) = 2 /\ failed = {}
  /\ Len(result.files) = 2
  /\ result.files[1].filename = "b.txt"
  /\ result.files[2].filename = "a.txt"
  /\ result.files[1].changes = result.files[2].changes

(* C26: the credential is written by initialize only: after a successful  *)
(* initialize the token held is the provider's, and no step of any other   *)
(* call, whether it returns or throws, changes the token or the method.    *)
C26_CredentialFrame ==
  /\ [](op = "main" /\ pc = "done" /\ out.t = "returned" =>
          token = lastResponse.token /\ authMethod = "github-cli")
  /\ [][op' # "main" => token' = token /\ authMethod' = authMethod]_vars

(* testConnection was refused by the remote and the token is still held.   *)
C26_Witness ==
  /\ op = "testConnection" /\ pc = "done"
  /\ lastResponse # NoResponse /\ lastResponse.status = 401
  /\ out.value.t = "boolean" /\ ~out.value.b
  /\ token = "gho_token" /\ authMethod = "github-cli"

(* C27: every request dispatched, a follow-up page request whose target    *)
(* comes from a next link included, is addressed to GITHUB_API_BASE, and   *)
(* the bearer token goes to no other host.                                 *)
C27_FixedEndpoint ==
  \A k \in 1..Len(net) :
    /\ net[k].url # <<>>
    /\ net[k].url[1] = GITHUB_API_BASE

====
